---- MODULE Spec2Model ----
(***************************************************************************)
(* The AI DJ backend: the segment scheduler (DJLoop.run), the two planning *)
(* graphs it drives (initialization and steady planning), the websocket    *)
(* control messages that start it, stop it and drain its queue, and the    *)
(* timing arithmetic of the transition render (create_dj_mix).             *)
(***************************************************************************)
EXTENDS Integers, Sequences, FiniteSets, TLC

\* ------------------------------------------------------------------------
\* Bounds of the model
\* ------------------------------------------------------------------------
\* run() tasks alive at the same time
MaxTasks == 2
\* graph invocations (bootstrap and steady) followed in the general scenario
MaxPlans == 2
\* graph invocations followed in the scenario where nothing fails
DeepPlans == 6
\* seconds by which the event-loop clock advances in one step
ClockStep == 60
\* Graph invocations explored with a peer connection attached
ListenerPlans == 3
\* Graph invocations explored with the metadata provider suppressed
StarvedPlans == 10

\* ------------------------------------------------------------------------
\* Program constants
\* ------------------------------------------------------------------------
InitialCooldown == 5
SuccessCooldown == 3
CooldownCap == 120
QueueGate == 3
max_segments == 5

\* planning_cooldown is a float that is only ever 5 or 3 times a power of
\* 1.5, or the cap; it is kept as an integer number of 1/Scale seconds.
Scale == 2 ^ 9

Min(a, b) == IF a <= b THEN a ELSE b
Max(a, b) == IF a >= b THEN a ELSE b

Tasks == 1 .. MaxTasks
Tracks == {"s1", "s2"}
None == "None"
NoHandle == [kind |-> "none", track |-> None, id |-> 0]

\* (now - last_planning_time) is kept per task, in clock steps, saturating
\* at the first value that is at least the cooldown cap.  The initial
\* last_planning_time of -999 is the saturated value.
SinceCap == (CooldownCap + ClockStep - 1) \div ClockStep

\* ------------------------------------------------------------------------
\* The deployment a behaviour runs in.  client is what
\* get_openrouter_client() hands to the graph: the OpenRouterClient of the
\* repository, or a client whose generate_track_selection accepts the
\* keywords the graph passes.  faults tells whether the providers, the
\* database and ffmpeg may fail; llm whether the planner LLM answers at all
\* (an API key is configured); consumption whether the front end sends
\* 'segment_consumed'; webrtc whether it makes a peer connection; starved
\* whether the metadata provider is suppressed once the intro is out (and
\* no cached song is left to pick); shutdown whether the application is
\* shut down while the scheduler is in use; tasks and plans carry the bounds
\* of the exploration.
\* ------------------------------------------------------------------------
Clients == {"OpenRouterClient", "AcceptsHistory"}

GeneralEnv(c) ==
    [client |-> c, faults |-> TRUE, llm |-> TRUE, consumption |-> TRUE,
     webrtc |-> FALSE, starved |-> FALSE, shutdown |-> TRUE,
     tasks |-> MaxTasks, plans |-> MaxPlans]

\* One listener who presses play once, asks for segments and never reports
\* one consumed, with every provider healthy and no LLM key.
QuietEnv ==
    [client |-> "AcceptsHistory", faults |-> FALSE, llm |-> FALSE,
     consumption |-> FALSE, webrtc |-> FALSE, starved |-> FALSE,
     shutdown |-> FALSE, tasks |-> 1, plans |-> DeepPlans]

\* One listener with a peer connection whose front end also reports the
\* segments it plays, with every provider healthy.
ListenerEnv ==
    [client |-> "AcceptsHistory", faults |-> FALSE, llm |-> FALSE,
     consumption |-> TRUE, webrtc |-> TRUE, starved |-> FALSE,
     shutdown |-> FALSE, tasks |-> 1, plans |-> ListenerPlans]

\* One listener; after the intro the metadata provider returns nothing and
\* the cache holds no song that was not played recently.
StarvedEnv ==
    [client |-> "AcceptsHistory", faults |-> FALSE, llm |-> FALSE,
     consumption |-> FALSE, webrtc |-> FALSE, starved |-> TRUE,
     shutdown |-> FALSE, tasks |-> 1, plans |-> StarvedPlans]

Deployments ==
    {GeneralEnv(c) : c \in Clients} \cup {QuietEnv, ListenerEnv, StarvedEnv}

VARIABLES
    env,                 \* the deployment, fixed over a behaviour
    running,             \* DJLoop.running
    initial_song_loaded, \* DJLoop.initial_song_loaded
    urgent,              \* DJLoop._urgent_segment_needed
    queue_created,       \* DJLoop.segment_queue is not None
    segment_queue,       \* the asyncio.Queue of rendered paths
    segments_rendered,   \* DJLoop.segments_rendered
    sessions,            \* rows of table sessions with this session_id
    play_history,        \* rows of table play_history, oldest first
    segments_tbl,        \* rows of table segments, oldest first
    invocations,         \* graph invocations started so far
    pc,                  \* position of each DJLoop.run task
    planning_cooldown,   \* local of run(), scaled by Scale
    since,               \* now - last_planning_time of each task
    st,                  \* the DJState of the invocation in flight
    mix,                 \* a track and the two renders that meet in it
    events,              \* ids of the segments announced by 'segment_ready'
    audio_track,         \* the DJAudioTrack of the peer connection
    stopped,             \* shutdown() was called after the last 'play'
    cache,               \* the songs table, the song files, the calls on them
    render,              \* one transition render: plan, timings, filter graph
    sockets              \* the websockets of /ws and the two registries

vars == << sockets, render, cache, mix, events, audio_track, stopped, env, running,
           initial_song_loaded, urgent, queue_created,
           segment_queue, segments_rendered, sessions, play_history,
           segments_tbl, invocations, pc, planning_cooldown, since, st >>

\* DJLoop.segments_planned is incremented with every append to
\* segments_rendered and by nothing else.
segments_planned == Len(segments_rendered)

EmptyState ==
    [ graph |-> "none",
      id |-> 0,
      is_urgent |-> FALSE,
      song_a_uuid |-> None,
      hits |-> None,
      llm |-> "not_called",
      selected_song_uuid |-> None,
      song_a_path |-> FALSE,
      song_b_path |-> FALSE,
      transition_plan |-> FALSE,
      mix |-> "not_run",
      persist |-> "not_run",
      speech_llm |-> FALSE,
      speech_script |-> FALSE,
      tts |-> FALSE,
      now_playing |-> FALSE,
      rendered_segment_path |-> NoHandle ]

\* No peer connection yet, hence no DJAudioTrack.
NoTrack == [exists |-> FALSE, loaded |-> << >>]

\* No render made: the value of mix while the scheduler runs.
NoRender == [kind |-> "none", start |-> 0, handoff_start |-> 0, trim |-> 0]
NoMix == [duration |-> 0, previous |-> NoRender, next |-> NoRender]

\* ------------------------------------------------------------------------
\* The songs table and the song files (db.py, cache_manager.py).  Sizes are
\* counted in units of 10^9 bytes.
\* ------------------------------------------------------------------------
Songs == {"s1", "s2", "s3"}

\* SQL NULL in a numeric column of table songs.
Null == -1

CACHE_MAX_BYTES == 50

\* Sizes a downloaded file can have.
SmallFile == 20
LargeFile == 30
FileSizes == {SmallFile, LargeFile}

\* Calls of DownloadSongTool made over a behaviour.
MaxCalls == 4

\* A row of table songs after its metadata was saved and before any
\* download: no local_path, no filesize_bytes, never played.
NewSong ==
    [local_path |-> None, filesize_bytes |-> Null,
     play_count |-> 0, last_played_at |-> Null]

\* No earlier call of DownloadSongTool by the task, or one without a path.
NoPrev == [uuid |-> None, song_b_path |-> None]

\* A call of DownloadSongTool that has not started.  song_b_path is the
\* path it returns, downloaded whether download_song delivered a result,
\* prev the track and the path of the task's call before this one.
NoCall ==
    [pc |-> "idle", uuid |-> None, song |-> NewSong, filesize |-> 0,
     current_size |-> 0, target_bytes |-> 0, rows |-> << >>,
     evicted |-> << >>, download_status |-> None, song_b_path |-> None,
     downloaded |-> FALSE, prev |-> NoPrev]

\* The cache as the scheduler's and the mixing specifications hold it.
NoCache ==
    [songs |-> [u \in Songs |-> NewSong], files |-> {}, demo |-> {},
     call |-> [t \in Tasks |-> NoCall], calls |-> 0, now |-> 0]

\* No transition render asked for: the value of render while the scheduler,
\* the mixing and the cache specifications run.
NoRequest == [pc |-> "none"]

\* The websockets the server is offered.
WebSockets == {"w1", "w2"}

\* No websocket has connected: manager.active_connections and the
\* emitter's connections are empty, no event was emitted.
NoSockets ==
    [handler |-> [w \in WebSockets |-> "none"],
     peer |-> [w \in WebSockets |-> "none"],
     active_connections |-> {},
     connections |-> {},
     emitted_to |-> {}]

Base ==
    /\ sockets = NoSockets
    /\ running = FALSE
    /\ initial_song_loaded = FALSE
    /\ urgent = FALSE
    /\ queue_created = FALSE
    /\ segment_queue = << >>
    /\ segments_rendered = << >>
    /\ sessions = 0
    /\ play_history = << >>
    /\ segments_tbl = << >>
    /\ invocations = 0
    /\ pc = [t \in Tasks |-> "none"]
    /\ planning_cooldown = [t \in Tasks |-> InitialCooldown * Scale]
    /\ since = [t \in Tasks |-> SinceCap]
    /\ st = [t \in Tasks |-> EmptyState]
    /\ events = {}
    /\ audio_track = NoTrack
    /\ stopped = FALSE

Init ==
    /\ env \in Deployments
    /\ Base
    /\ mix = NoMix
    /\ cache = NoCache
    /\ render = NoRequest

\* What an environment choice that may fail can be: success, and failure
\* where the deployment has faults.
Outcomes == IF env.faults THEN {TRUE, FALSE} ELSE {TRUE}

\* ------------------------------------------------------------------------
\* The planner LLM call and the graph nodes, as functions of the DJState
\* and of what the environment answers
\* ------------------------------------------------------------------------
\* The first search hit of the metadata provider (or of the song cache),
\* None when the search returns nothing.
SearchResults == {"s1"} \cup (IF env.faults THEN {None} ELSE {})

\* The same for the steady PlanningAgent: cached songs not played recently,
\* else the provider's search.
SteadySearchResults == IF env.starved THEN {None} ELSE SearchResults

\* What the planner LLM can answer: nothing usable as a response
\* (chat_completion returns None, or its content does not parse), a parsed
\* object without selected_uuid, or a parsed choice.
LLMAnswers ==
    {[kind |-> "unavailable", uuid |-> None]}
        \cup (IF env.llm THEN {[kind |-> "choice", uuid |-> u] : u \in Tracks}
              ELSE {})
        \cup (IF env.llm /\ env.faults
              THEN {[kind |-> "no_uuid", uuid |-> None]} ELSE {})

\* openrouter.generate_track_selection(user_controls=, history=,
\* available_songs=, thinking_budget=): the method of OpenRouterClient takes
\* session_history and global_history and no history, so the call raises
\* TypeError before the model is asked anything.
generate_track_selection(client, answer) ==
    IF client = "OpenRouterClient"
    THEN [kind |-> "TypeError", uuid |-> None]
    ELSE answer

\* The selection both selector agents make from the search hits and the
\* LLM's response.
selected_uuid(hit, llm_response) ==
    IF llm_response.kind = "unavailable" THEN hit ELSE llm_response.uuid

InitialSongSelectorAgent(state, hit, llm_response) ==
    IF hit = None
    THEN [state EXCEPT !.selected_song_uuid = None]
    ELSE IF llm_response.kind = "TypeError"
    THEN [state EXCEPT !.hits = hit, !.llm = "TypeError",
                       !.selected_song_uuid = None]
    ELSE [state EXCEPT !.hits = hit, !.llm = llm_response.kind,
                       !.selected_song_uuid = selected_uuid(hit, llm_response)]

\* head is the song of the session's most recent play, None without one.
PlanningAgent(state, head, hit, llm_response) ==
    LET s0 == IF head # None THEN [state EXCEPT !.song_a_uuid = head]
              ELSE state
    IN  IF hit = None
        THEN [s0 EXCEPT !.selected_song_uuid = None]
        ELSE IF llm_response.kind = "TypeError"
        THEN [s0 EXCEPT !.hits = hit, !.llm = "TypeError"]
        ELSE [s0 EXCEPT !.hits = hit, !.llm = llm_response.kind,
                        !.selected_song_uuid = selected_uuid(hit, llm_response)]

CheckCacheTool(state, a_present) ==
    [state EXCEPT !.song_a_path = (state.song_a_uuid # None /\ a_present)]

\* fetched: the song is in the cache or its download succeeds.
DownloadSongTool(state, fetched) ==
    IF state.selected_song_uuid = None
    THEN state
    ELSE [state EXCEPT !.song_b_path = fetched]

\* Where TransitionPlannerAgent may raise inside its try block: at get_db,
\* before song B's file is looked at, or in the analysis after it.
PlannerOutcomes ==
    {"plan"} \cup (IF env.faults THEN {"get_db_raises", "analysis_raises"}
                                ELSE {})

\* The except branch of TransitionPlannerAgent is reached: get_db raises
\* once a track is selected, the analysis when both songs have a file.
PlannerRaises(state, planner) ==
    /\ state.selected_song_uuid # None
    /\ \/ planner = "get_db_raises"
       \/ /\ planner = "analysis_raises"
          /\ state.song_a_path
          /\ state.song_b_path

\* A plan comes out whenever song B has a file: from the audio analysis,
\* the default intro plan, or the blend fallback of the except branch,
\* which also sets a plan when get_db raises and song B has no file.
TransitionPlannerAgent(state, planner) ==
    IF state.selected_song_uuid = None
    THEN state
    ELSE IF PlannerRaises(state, planner)
    THEN [state EXCEPT !.transition_plan = TRUE]
    ELSE IF ~state.song_b_path
    THEN state
    ELSE [state EXCEPT !.transition_plan = TRUE]

\* The intro script: the script LLM is asked whatever the state holds, and
\* its answer or one of the two fallback lines becomes the script.
InitialSpeechWriterAgent(state) ==
    [state EXCEPT !.speech_llm = TRUE, !.speech_script = TRUE]

\* What the script LLM gives the steady speech writer: a text, or nothing
\* usable (no key, a failed request, an answer that does not parse).
SpeechAnswers == {"none"} \cup (IF env.llm THEN {"text"} ELSE {})

\* The steady script: the script LLM is asked whatever the state holds (the
\* state the scheduler passes has no transition_plan key).
SpeechWriterAgent(state, answer) ==
    [state EXCEPT !.speech_llm = TRUE, !.speech_script = (answer = "text")]

\* Both planners run on the same input state and their results are merged.
ParallelPlanningNode(state, planner, answer) ==
    LET transition_result == TransitionPlannerAgent(state, planner)
        speech_result == SpeechWriterAgent(state, answer)
    IN  [speech_result EXCEPT
             !.transition_plan = transition_result.transition_plan]

\* elevenlabs.synthesize_speech is called whenever there is a script.
TTSAgent(state) == [state EXCEPT !.tts = state.speech_script]

\* create_dj_mix returns a dict of output_path, metadata_path and metadata
\* when ffmpeg succeeds and None on ffmpeg.Error.
create_dj_mix(ffmpeg_ok) == IF ffmpeg_ok THEN "dict" ELSE "None"

\* os.path.exists of what the renderer got: True on the path of the file it
\* has just written, TypeError on a dict.
path_exists(result_path) ==
    IF result_path = "path" THEN "True" ELSE "TypeError"

AudioRendererTool(state, ffmpeg_ok) ==
    IF ~state.transition_plan \/ ~state.song_b_path
    THEN state
    ELSE LET result_path == IF state.song_a_path
                            THEN create_dj_mix(ffmpeg_ok)
                            ELSE "path"
             ran == [state EXCEPT !.mix = result_path]
         IN  IF result_path = "None" THEN ran
             ELSE IF path_exists(result_path) # "True" THEN ran
             ELSE [ran EXCEPT !.rendered_segment_path =
                       [kind |-> "mix", track |-> state.selected_song_uuid,
                        id |-> state.id]]

\* The intro render falls back from the mix to a concat to a plain copy of
\* the song, so it has an output whenever the song has a file.
InitialAudioRendererTool(state) ==
    IF ~state.song_b_path
    THEN state
    ELSE [state EXCEPT !.mix = "path", !.rendered_segment_path =
              [kind |-> "intro", track |-> state.selected_song_uuid,
               id |-> state.id]]

\* The song of the most recent play of the session (get_recent_plays is
\* ordered by started_at, newest first).
RecentHead ==
    IF play_history = << >> THEN None
    ELSE play_history[Len(play_history)].song_uuid

\* ------------------------------------------------------------------------
\* The scheduler's decision and cooldown arithmetic (locals of run())
\* ------------------------------------------------------------------------
\* A decision that forgets the queue gate.
can_plan_without_gate(elapsed, cooldown, is_urgent, q_size) ==
    (elapsed >= cooldown) \/ is_urgent

\* elapsed and cooldown in 1/Scale seconds.  The queue object is always
\* truthy, so the queue gate is read whenever the tick is not urgent.
can_plan(elapsed, cooldown, is_urgent, q_size) ==
    LET due == (elapsed >= cooldown) \/ is_urgent
    IN  IF due /\ ~is_urgent /\ q_size >= QueueGate THEN FALSE ELSE due

Elapsed(sn) == sn * ClockStep * Scale

\* A widening that doubles the cooldown.
WidenDoubling(cooldown) == Min(CooldownCap * Scale, cooldown * 2)

Widen(cooldown) == Min(CooldownCap * Scale, (cooldown * 3) \div 2)

\* The cooldown run() leaves a steady invocation with.
NextCooldown(cooldown, result) ==
    LET after_put == IF result.rendered_segment_path # NoHandle
                     THEN SuccessCooldown * Scale
                     ELSE cooldown
    IN  IF result.selected_song_uuid = None THEN Widen(after_put) ELSE after_put

\* ------------------------------------------------------------------------
\* Pieces of run() that follow a resumption without another await
\* ------------------------------------------------------------------------
Return(t) ==
    /\ pc' = [pc EXCEPT ![t] = "none"]
    /\ st' = [st EXCEPT ![t] = EmptyState]
    /\ planning_cooldown' = [planning_cooldown EXCEPT ![t] = InitialCooldown * Scale]
    /\ since' = [since EXCEPT ![t] = SinceCap]
    /\ UNCHANGED << urgent, invocations >>

\* One pass of "while self.running:" up to its first await, with the locals
\* cd and sn; run is the value of self.running it reads.
SteadyTick(t, run, cd, sn) ==
    IF ~run
    THEN Return(t)
    ELSE /\ planning_cooldown' = [planning_cooldown EXCEPT ![t] = cd]
         /\ since' = [since EXCEPT ![t] = sn]
         /\ IF can_plan(Elapsed(sn), cd, urgent, Len(segment_queue))
            THEN /\ invocations < env.plans
                 /\ invocations' = invocations + 1
                 /\ urgent' = FALSE
                 /\ pc' = [pc EXCEPT ![t] = "read_history"]
                 /\ st' = [st EXCEPT ![t] =
                        [EmptyState EXCEPT !.graph = "plan",
                                           !.id = invocations + 1,
                                           !.is_urgent = urgent]]
            ELSE /\ pc' = [pc EXCEPT ![t] = "sleep2"]
                 /\ st' = [st EXCEPT ![t] = EmptyState]
                 /\ UNCHANGED << urgent, invocations >>

\* The head of "while not self.initial_song_loaded and self.running:" and
\* what follows it when the loop is left.
BootstrapHead(t, run, loaded) ==
    IF ~loaded /\ run
    THEN /\ invocations < env.plans
         /\ invocations' = invocations + 1
         /\ pc' = [pc EXCEPT ![t] = "initial_song_selector"]
         /\ st' = [st EXCEPT ![t] =
                [EmptyState EXCEPT !.graph = "init", !.id = invocations + 1]]
         /\ UNCHANGED << urgent, planning_cooldown, since >>
    ELSE SteadyTick(t, run, InitialCooldown * Scale, SinceCap)

\* ------------------------------------------------------------------------
\* Websocket and WebRTC handlers (main.py)
\* ------------------------------------------------------------------------
\* 'play': a run() task is created when the loop is not marked running.
Play(t) ==
    /\ ~running
    /\ pc[t] = "none"
    /\ \A u \in Tasks : u < t => pc[u] # "none"
    /\ Cardinality({u \in Tasks : pc[u] # "none"}) < env.tasks
    /\ pc' = [pc EXCEPT ![t] = "start"]
    /\ stopped' = FALSE
    /\ UNCHANGED << sockets, render, cache, audio_track, mix, events, env, running,
                    initial_song_loaded, urgent, queue_created,
                    segment_queue, segments_rendered, sessions,
                    play_history, segments_tbl, invocations,
                    planning_cooldown, since, st >>

\* lifespan shutdown: DJLoop.shutdown()
Shutdown ==
    /\ env.shutdown
    /\ running \/ ~stopped
    /\ running' = FALSE
    /\ stopped' = TRUE
    /\ UNCHANGED << sockets, render, cache, audio_track, mix, events, env,
                    initial_song_loaded, urgent, queue_created,
                    segment_queue, segments_rendered, sessions,
                    play_history, segments_tbl, invocations, pc,
                    planning_cooldown, since, st >>

\* 'request_segments': DJLoop.request_more_segments()
RequestSegments ==
    /\ running
    /\ ~urgent
    /\ urgent' = TRUE
    /\ UNCHANGED << sockets, render, cache, stopped, audio_track, mix, events, env,
                    running, initial_song_loaded, queue_created,
                    segment_queue, segments_rendered, sessions,
                    play_history, segments_tbl, invocations, pc,
                    planning_cooldown, since, st >>

\* 'segment_consumed': one handle is popped when the queue is not empty.
SegmentConsumed ==
    /\ env.consumption
    /\ queue_created
    /\ segment_queue # << >>
    /\ segment_queue' = Tail(segment_queue)
    /\ UNCHANGED << sockets, render, cache, stopped, audio_track, mix, events, env,
                    running, initial_song_loaded, urgent, queue_created,
                    segments_rendered, sessions, play_history,
                    segments_tbl, invocations, pc, planning_cooldown,
                    since, st >>

\* POST /webrtc/offer creates the queue when run() has not yet, and a
\* DJAudioTrack that reads from it.
WebrtcOffer ==
    /\ env.webrtc
    /\ ~audio_track.exists
    /\ queue_created' = TRUE
    /\ audio_track' = [audio_track EXCEPT !.exists = TRUE]
    /\ UNCHANGED << sockets, render, cache, stopped, mix, events, env, running,
                    initial_song_loaded, urgent, segment_queue,
                    segments_rendered, sessions, play_history,
                    segments_tbl, invocations, pc, planning_cooldown,
                    since, st >>

\* DJAudioTrack.recv with no segment being decoded (none loaded yet, or the
\* current one has just ended): the next handle is taken off the queue and
\* loaded.
Recv ==
    /\ audio_track.exists
    /\ segment_queue # << >>
    /\ segment_queue' = Tail(segment_queue)
    /\ audio_track' = [audio_track EXCEPT
                          !.loaded = Append(@, Head(segment_queue).id)]
    /\ UNCHANGED << sockets, render, cache, stopped, mix, events, env, running,
                    initial_song_loaded, urgent, queue_created,
                    segments_rendered, sessions, play_history,
                    segments_tbl, invocations, pc, planning_cooldown,
                    since, st >>

\* The event-loop clock moves on by one step.
Advance ==
    /\ \E t \in Tasks : since[t] < SinceCap
    /\ since' = [t \in Tasks |-> Min(SinceCap, since[t] + 1)]
    /\ UNCHANGED << sockets, render, cache, stopped, audio_track, mix, events, env,
                    running, initial_song_loaded, urgent, queue_created,
                    segment_queue, segments_rendered, sessions,
                    play_history, segments_tbl, invocations, pc,
                    planning_cooldown, st >>

\* ------------------------------------------------------------------------
\* DJLoop.run (loop.py), one action per stretch between two awaits, and
\* the graph nodes it awaits (graph.py)
\* ------------------------------------------------------------------------
\* The task's first stretch: the queue is created if nobody has, and the
\* task waits for db.create_session.
RunStart(t) ==
    /\ pc[t] = "start"
    /\ queue_created' = TRUE
    /\ pc' = [pc EXCEPT ![t] = "create_session"]
    /\ UNCHANGED << sockets, render, cache, stopped, audio_track, mix, events, env,
                    running, initial_song_loaded, urgent, segment_queue,
                    segments_rendered, sessions, play_history,
                    segments_tbl, invocations, planning_cooldown, since,
                    st >>

\* create_session returns or raises (the row of this session_id exists, or
\* the database fails); either way running is set and the bootstrap loop
\* begins.
CreateSession(t) ==
    /\ pc[t] = "create_session"
    /\ \E ok \in (IF sessions = 0 THEN Outcomes ELSE {FALSE}) :
           sessions' = IF ok THEN sessions + 1 ELSE sessions
    /\ running' = TRUE
    /\ BootstrapHead(t, TRUE, initial_song_loaded)
    /\ UNCHANGED << sockets, render, cache, stopped, audio_track, mix, events, env,
                    initial_song_loaded, queue_created, segment_queue,
                    segments_rendered, play_history, segments_tbl >>

InitialSongSelector(t) ==
    /\ pc[t] = "initial_song_selector"
    /\ \E hit \in SearchResults, answer \in LLMAnswers :
           st' = [st EXCEPT ![t] = InitialSongSelectorAgent(st[t], hit,
                      generate_track_selection(env.client, answer))]
    /\ pc' = [pc EXCEPT ![t] = "download_song"]
    /\ UNCHANGED << sockets, render, cache, stopped, audio_track, mix, events, env,
                    running, initial_song_loaded, urgent, queue_created,
                    segment_queue, segments_rendered, sessions,
                    play_history, segments_tbl, invocations,
                    planning_cooldown, since >>

\* download_song, save_metadata, initial_speech_writer, tts and
\* initial_audio_renderer: nodes that touch nothing the tasks share.
InitialRender(t) ==
    /\ pc[t] = "download_song"
    /\ \E fetched \in Outcomes :
           st' = [st EXCEPT ![t] =
                      InitialAudioRendererTool(TTSAgent(InitialSpeechWriterAgent(
                          DownloadSongTool(st[t], fetched))))]
    /\ pc' = [pc EXCEPT ![t] = "persistence"]
    /\ UNCHANGED << sockets, render, cache, stopped, audio_track, mix, events, env,
                    running, initial_song_loaded, urgent, queue_created,
                    segment_queue, segments_rendered, sessions,
                    play_history, segments_tbl, invocations,
                    planning_cooldown, since >>

\* How far PersistenceNode gets before the database raises.
PersistOutcomes ==
    IF env.faults
    THEN {"ok", "insert_segment_raises", "update_play_count_raises",
          "insert_play_history_raises"}
    ELSE {"ok"}

PersistenceNode(t) ==
    /\ pc[t] = "persistence"
    /\ LET state == st[t]
       IN  IF state.rendered_segment_path # NoHandle
              /\ state.selected_song_uuid # None
           THEN \E o \in PersistOutcomes :
                  /\ segments_tbl' =
                       IF o = "insert_segment_raises" THEN segments_tbl
                       ELSE Append(segments_tbl,
                                [segment_index |-> 0,
                                 song_uuid |-> state.selected_song_uuid,
                                 file_path |-> state.rendered_segment_path])
                  /\ play_history' =
                       IF o # "ok" THEN play_history
                       ELSE Append(play_history,
                                [song_uuid |-> state.selected_song_uuid,
                                 transition_type |-> "planned",
                                 id |-> state.id])
                  /\ st' = [st EXCEPT ![t].persist = o]
           ELSE /\ st' = [st EXCEPT ![t].persist = "skipped"]
                /\ UNCHANGED << segments_tbl, play_history >>
    /\ pc' = [pc EXCEPT ![t] = "emit_events"]
    /\ UNCHANGED << sockets, render, cache, stopped, audio_track, mix, events, env,
                    running, initial_song_loaded, urgent, queue_created,
                    segment_queue, segments_rendered, sessions,
                    invocations, planning_cooldown, since >>

\* now_playing is broadcast when a track is selected, segment_ready when
\* the state carries rendered_segment_path.
EmitEventsNode(t) ==
    /\ pc[t] = "emit_events"
    /\ st' = [st EXCEPT ![t].now_playing = (st[t].selected_song_uuid # None)]
    /\ events' = IF st[t].rendered_segment_path # NoHandle
                 THEN events \cup {st[t].id}
                 ELSE events
    /\ pc' = [pc EXCEPT ![t] = "result"]
    /\ UNCHANGED << sockets, render, cache, stopped, audio_track, mix, env, running,
                    initial_song_loaded, urgent, queue_created,
                    segment_queue, segments_rendered, sessions,
                    play_history, segments_tbl, invocations,
                    planning_cooldown, since >>

\* init_graph.ainvoke has returned: the intro is put on the queue, or the
\* task sleeps 30 s.
InitResult(t) ==
    /\ pc[t] = "result"
    /\ st[t].graph = "init"
    /\ IF st[t].selected_song_uuid # None
          /\ st[t].rendered_segment_path # NoHandle
       THEN /\ initial_song_loaded' = TRUE
            /\ segment_queue' = Append(segment_queue, st[t].rendered_segment_path)
            /\ segments_rendered' =
                   Append(segments_rendered, st[t].rendered_segment_path)
            /\ pc' = [pc EXCEPT ![t] = "insert_play_history"]
            /\ st' = st
       ELSE /\ pc' = [pc EXCEPT ![t] = "sleep30"]
            /\ st' = [st EXCEPT ![t] = EmptyState]
            /\ UNCHANGED << initial_song_loaded, segment_queue,
                            segments_rendered >>
    /\ UNCHANGED << sockets, render, cache, stopped, audio_track, mix, events, env,
                    running, urgent, queue_created, sessions, play_history,
                    segments_tbl, invocations, planning_cooldown, since >>

\* The 'initial' play is recorded (or the insert raises and is logged), the
\* bootstrap loop is left and the steady loop makes its first pass.
InitRecord(t) ==
    /\ pc[t] = "insert_play_history"
    /\ \E ok \in Outcomes :
           play_history' =
               IF ok
               THEN Append(play_history,
                        [song_uuid |-> st[t].selected_song_uuid,
                         transition_type |-> "initial", id |-> st[t].id])
               ELSE play_history
    /\ SteadyTick(t, running, InitialCooldown * Scale, SinceCap)
    /\ UNCHANGED << sockets, render, cache, stopped, audio_track, mix, events, env,
                    running, initial_song_loaded, queue_created,
                    segment_queue, segments_rendered, sessions,
                    segments_tbl >>

\* asyncio.sleep(30) is over.
BootstrapRetry(t) ==
    /\ pc[t] = "sleep30"
    /\ BootstrapHead(t, running, initial_song_loaded)
    /\ UNCHANGED << sockets, render, cache, stopped, audio_track, mix, events, env,
                    running, initial_song_loaded, queue_created,
                    segment_queue, segments_rendered, sessions,
                    play_history, segments_tbl >>

\* get_recent_plays returns: last_planning_time is set to the time read at
\* the top of the pass, and the planning graph is invoked with the song of
\* the most recent play as song_a_uuid (the local is_urgent is not read
\* again).  When the read raises, the outer except sleeps 5 s.
ReadHistory(t) ==
    /\ pc[t] = "read_history"
    /\ \E ok \in Outcomes :
           IF ok
           THEN /\ since' = [since EXCEPT ![t] = 0]
                /\ st' = [st EXCEPT ![t].song_a_uuid = RecentHead,
                                    ![t].is_urgent = FALSE]
                /\ pc' = [pc EXCEPT ![t] = "planning_agent"]
           ELSE /\ pc' = [pc EXCEPT ![t] = "sleep5"]
                /\ st' = [st EXCEPT ![t] = EmptyState]
                /\ since' = since
    /\ UNCHANGED << sockets, render, cache, stopped, audio_track, mix, events, env,
                    running, initial_song_loaded, urgent, queue_created,
                    segment_queue, segments_rendered, sessions,
                    play_history, segments_tbl, invocations,
                    planning_cooldown >>

PlanningAgentNode(t) ==
    /\ pc[t] = "planning_agent"
    /\ \E hit \in SteadySearchResults, answer \in LLMAnswers :
           st' = [st EXCEPT ![t] = PlanningAgent(st[t], RecentHead, hit,
                      generate_track_selection(env.client, answer))]
    /\ pc' = [pc EXCEPT ![t] = "check_cache"]
    /\ UNCHANGED << sockets, render, cache, stopped, audio_track, mix, events, env,
                    running, initial_song_loaded, urgent, queue_created,
                    segment_queue, segments_rendered, sessions,
                    play_history, segments_tbl, invocations,
                    planning_cooldown, since >>

\* check_cache, download_if_needed, parallel_planning, tts and
\* audio_renderer: nodes that touch nothing the tasks share.
Render(t) ==
    /\ pc[t] = "check_cache"
    /\ \E a_present \in BOOLEAN, fetched \in Outcomes, ffmpeg_ok \in Outcomes,
          planner \in PlannerOutcomes, answer \in SpeechAnswers :
           st' = [st EXCEPT ![t] =
                      AudioRendererTool(
                          TTSAgent(ParallelPlanningNode(
                              DownloadSongTool(CheckCacheTool(st[t], a_present),
                                               fetched),
                              planner, answer)),
                          ffmpeg_ok)]
    /\ pc' = [pc EXCEPT ![t] = "persistence"]
    /\ UNCHANGED << sockets, render, cache, stopped, audio_track, mix, events, env,
                    running, initial_song_loaded, urgent, queue_created,
                    segment_queue, segments_rendered, sessions,
                    play_history, segments_tbl, invocations,
                    planning_cooldown, since >>

\* A run() that gives up after an invocation without a segment.
PlanResultStops(t) ==
    /\ pc[t] = "result"
    /\ st[t].graph = "plan"
    /\ IF st[t].rendered_segment_path # NoHandle
       THEN /\ segment_queue' = Append(segment_queue, st[t].rendered_segment_path)
            /\ segments_rendered' =
                   Append(segments_rendered, st[t].rendered_segment_path)
       ELSE UNCHANGED << segment_queue, segments_rendered >>
    /\ planning_cooldown' =
           [planning_cooldown EXCEPT ![t] = NextCooldown(@, st[t])]
    /\ pc' = [pc EXCEPT ![t] =
                IF st[t].rendered_segment_path # NoHandle
                THEN "sleep2" ELSE "none"]
    /\ st' = [st EXCEPT ![t] = EmptyState]
    /\ UNCHANGED << sockets, render, cache, stopped, audio_track, mix, events, env,
                    running, initial_song_loaded, urgent, queue_created,
                    sessions, play_history, segments_tbl, invocations,
                    since >>

\* planning_graph.ainvoke has returned: a rendered segment is put on the
\* queue, the cooldown is set, and the task sleeps 2 s.
PlanResult(t) ==
    /\ pc[t] = "result"
    /\ st[t].graph = "plan"
    /\ IF st[t].rendered_segment_path # NoHandle
       THEN /\ segment_queue' = Append(segment_queue, st[t].rendered_segment_path)
            /\ segments_rendered' =
                   Append(segments_rendered, st[t].rendered_segment_path)
       ELSE UNCHANGED << segment_queue, segments_rendered >>
    /\ planning_cooldown' =
           [planning_cooldown EXCEPT ![t] = NextCooldown(@, st[t])]
    /\ pc' = [pc EXCEPT ![t] = "sleep2"]
    /\ st' = [st EXCEPT ![t] = EmptyState]
    /\ UNCHANGED << sockets, render, cache, stopped, audio_track, mix, events, env,
                    running, initial_song_loaded, urgent, queue_created,
                    sessions, play_history, segments_tbl, invocations,
                    since >>

\* asyncio.sleep(2), or the sleep(5) of the outer except, is over.
Wake(t) ==
    /\ pc[t] \in {"sleep2", "sleep5"}
    /\ SteadyTick(t, running, planning_cooldown[t], since[t])
    /\ UNCHANGED << sockets, render, cache, stopped, audio_track, mix, events, env,
                    running, initial_song_loaded, queue_created,
                    segment_queue, segments_rendered, sessions,
                    play_history, segments_tbl >>

Next ==
    \/ \E t \in Tasks : Play(t)
    \/ Shutdown
    \/ RequestSegments
    \/ SegmentConsumed
    \/ WebrtcOffer
    \/ Recv
    \/ Advance
    \/ \E t \in Tasks : RunStart(t)
    \/ \E t \in Tasks : CreateSession(t)
    \/ \E t \in Tasks : InitialSongSelector(t)
    \/ \E t \in Tasks : InitialRender(t)
    \/ \E t \in Tasks : PersistenceNode(t)
    \/ \E t \in Tasks : EmitEventsNode(t)
    \/ \E t \in Tasks : InitResult(t)
    \/ \E t \in Tasks : InitRecord(t)
    \/ \E t \in Tasks : BootstrapRetry(t)
    \/ \E t \in Tasks : ReadHistory(t)
    \/ \E t \in Tasks : PlanningAgentNode(t)
    \/ \E t \in Tasks : Render(t)
    \/ \E t \in Tasks : PlanResult(t)
    \/ \E t \in Tasks : Wake(t)

Spec == Init /\ [][Next]_vars

\* ------------------------------------------------------------------------
\* Properties
\* ------------------------------------------------------------------------
ActiveRuns == {t \in Tasks : pc[t] # "none"}

GraphNodes ==
    {"initial_song_selector", "download_song", "planning_agent",
     "check_cache", "persistence", "emit_events", "result"}

InFlight == {t \in Tasks : pc[t] \in GraphNodes}

\* C1: at most one DJLoop.run task is active, at most one planning-graph
\* invocation is in flight, and at most one session row is created, whatever
\* the order of 'play' messages, shutdown() calls and scheduler steps.
C1_OneRunOneInvocationOneSession ==
    /\ Cardinality(ActiveRuns) <= 1
    /\ Cardinality(InFlight) <= 1
    /\ sessions <= 1

\* A step in which task t makes a pass of the steady loop with
\* self.running true.
SteadyPass(t) ==
    /\ Wake(t) \/ InitRecord(t) \/ BootstrapRetry(t) \/ CreateSession(t)
    /\ pc'[t] \in {"read_history", "sleep2"}

\* The decision as the specification words it, on the task's locals.
PlanIff(t) ==
    /\ Elapsed(since[t]) >= planning_cooldown[t] \/ urgent
    /\ Len(segment_queue) < 3 \/ urgent

C3_CooldownAfterInvocation ==
    [][\A t \in Tasks :
          PlanResult(t) =>
              planning_cooldown'[t] =
                  IF Len(segment_queue') > Len(segment_queue)
                  THEN 3 * Scale
                  ELSE Min(120 * Scale, (planning_cooldown[t] * 3) \div 2)]_vars

\* C4: the segment queue never holds more than Q_MAX = 5 handles.
C4_QueueAtMostFive == Len(segment_queue) <= 5

\* C5: a bootstrap invocation whose search returned at least one hit has
\* selected a track when the selector is done: the LLM's choice, or the first
\* hit when the LLM is unavailable or its answer is unusable.
C5_BootstrapSelects ==
    \A t \in Tasks :
        (st[t].graph = "init" /\ pc[t] = "download_song"
             /\ st[t].hits # None)
            => st[t].selected_song_uuid # None

\* C6: a steady invocation that selected a track, found the files of A and
\* B, has a transition plan and whose ffmpeg run succeeded carries
\* rendered_segment_path when the renderer is done.
C6_RenderedWhenMixSucceeds ==
    \A t \in Tasks :
        (st[t].graph = "plan" /\ pc[t] = "persistence"
             /\ st[t].selected_song_uuid # None
             /\ st[t].song_a_path /\ st[t].song_b_path
             /\ st[t].transition_plan /\ st[t].mix = "dict")
            => st[t].rendered_segment_path # NoHandle

Intros == {i \in 1 .. Len(segments_rendered) :
               segments_rendered[i].kind = "intro"}

\* C7: at most one bootstrap segment is ever enqueued, the first handle ever
\* enqueued is the bootstrap segment, and no steady planning starts before
\* the bootstrap segment has been enqueued.
C7_OneBootstrapFirst ==
    /\ Cardinality(Intros) <= 1
    /\ segments_rendered # << >> => segments_rendered[1].kind = "intro"
    /\ \A t \in Tasks : st[t].graph = "plan" => Intros # {}

\* C8: the A-track a steady invocation plans from is the selected track of
\* the segment most recently enqueued.
C8_TrackAIsLastEnqueuedB ==
    [][\A t \in Tasks :
          PlanningAgentNode(t) =>
              /\ segments_rendered # << >>
              /\ st'[t].song_a_uuid =
                     segments_rendered[Len(segments_rendered)].track]_vars

\* C10: a play-history row of a segment is never inserted once the
\* segment's handle is on the queue: its insert comes before the put.
C10_HistoryBeforeEnqueue ==
    [][Len(play_history') > Len(play_history) =>
          \A i \in 1 .. Len(segments_rendered) :
              segments_rendered[i].id # play_history'[Len(play_history')].id]_vars

\* ------------------------------------------------------------------------
\* The timing arithmetic of the renders (dj_mix.py, graph.py), in
\* milliseconds: a track B of some duration is song 2 of one segment (or the
\* song of the intro) and song 1 of the next
\* ------------------------------------------------------------------------
Durations == {45000, 70000, 90000, 180000, 210000, 300000}
Crossfades == {0, 500, 750, 4000, 10000}
NoStart == 0 - 1
PlannedStarts == {NoStart, 10000, 60000, 150000, 190000}

transition_buffer == 20000
song_to_song_overlap == 750
song1_lead_in == 12000

\* Where the transition would start if an unplanned start left no buffer
\* before the end of song 1.
transition_start_unbuffered(song1_duration, t_start, crossfade_duration) ==
    LET planned == IF t_start # NoStart THEN t_start
                   ELSE song1_duration - crossfade_duration
        floored == IF planned < 20000 THEN 20000 ELSE planned
    IN  IF floored > song1_duration - crossfade_duration
        THEN song1_duration - crossfade_duration
        ELSE floored

\* create_dj_mix: where the transition starts in song 1
transition_start(song1_duration, t_start, crossfade_duration) ==
    LET planned == IF t_start # NoStart THEN t_start
                   ELSE song1_duration - transition_buffer - crossfade_duration
        floored == IF planned < 20000 THEN 20000 ELSE planned
    IN  IF floored > song1_duration - crossfade_duration
        THEN song1_duration - crossfade_duration
        ELSE floored

\* create_dj_mix: where the segment starts in song 1
song1_start(song1_duration, t_start, crossfade_duration) ==
    Max(0, transition_start(song1_duration, t_start, crossfade_duration)
               - song1_lead_in)

\* create_dj_mix: where the next segment is expected to take song 2 over
song2_handoff_start(song2_duration) ==
    Max(0, (song2_duration - transition_buffer) - song1_lead_in)

\* How much of song 2 the segment would carry if it were cut short of the
\* handoff by the overlap and not past it.
song2_trim_short(song2_duration) ==
    LET trim == Min(song2_handoff_start(song2_duration) - song_to_song_overlap,
                    song2_duration)
    IN  IF trim < 60000 THEN song2_duration ELSE trim

\* create_dj_mix: how much of song 2 the segment carries
song2_trim(song2_duration) ==
    LET trim == Min(song2_handoff_start(song2_duration) + song_to_song_overlap,
                    song2_duration)
    IN  IF trim < 60000 THEN song2_duration ELSE trim

\* InitialAudioRendererTool: how much of the song the intro carries
song_trim_duration(song_duration) ==
    LET trim == song_duration - 20000
    IN  IF trim < 60000 THEN song_duration - 15000 ELSE trim

InitMix ==
    /\ env = QuietEnv
    /\ Base
    /\ mix \in {[duration |-> d, previous |-> NoRender, next |-> NoRender] :
                    d \in Durations}
    /\ cache = NoCache
    /\ render = NoRequest

\* Segment n-1 is a transition into the track.
RenderPreviousMix ==
    /\ mix.previous = NoRender
    /\ mix' = [mix EXCEPT !.previous =
                  [kind |-> "mix", start |-> 0,
                   handoff_start |-> song2_handoff_start(mix.duration),
                   trim |-> song2_trim(mix.duration)]]
    /\ UNCHANGED << sockets, render, cache, stopped, audio_track, events, env,
                    running, initial_song_loaded, urgent, queue_created,
                    segment_queue, segments_rendered, sessions,
                    play_history, segments_tbl, invocations, pc,
                    planning_cooldown, since, st >>

\* Segment n-1 is the intro: the track from its start, cut where the next
\* segment is meant to take over.
RenderPreviousIntro ==
    /\ mix.previous = NoRender
    /\ mix' = [mix EXCEPT !.previous =
                  [kind |-> "intro", start |-> 0,
                   handoff_start |-> song_trim_duration(mix.duration),
                   trim |-> song_trim_duration(mix.duration)]]
    /\ UNCHANGED << sockets, render, cache, stopped, audio_track, events, env,
                    running, initial_song_loaded, urgent, queue_created,
                    segment_queue, segments_rendered, sessions,
                    play_history, segments_tbl, invocations, pc,
                    planning_cooldown, since, st >>

\* Segment n is a transition out of the track, with the plan's transition
\* start and crossfade length.
RenderNextMix ==
    /\ mix.next = NoRender
    /\ \E t_start \in PlannedStarts, xfade_dur \in Crossfades :
           mix' = [mix EXCEPT !.next =
                      [kind |-> "mix",
                       start |-> song1_start(mix.duration, t_start, xfade_dur),
                       handoff_start |-> t_start, trim |-> xfade_dur]]
    /\ UNCHANGED << sockets, render, cache, stopped, audio_track, events, env,
                    running, initial_song_loaded, urgent, queue_created,
                    segment_queue, segments_rendered, sessions,
                    play_history, segments_tbl, invocations, pc,
                    planning_cooldown, since, st >>

NextMix == RenderPreviousMix \/ RenderPreviousIntro \/ RenderNextMix

SpecMix == InitMix /\ [][NextMix]_vars

\* C9: where segment n starts in its track A differs by at most the overlap
\* (0.75 s) from the handoff start segment n-1 recorded for the same track,
\* whatever the crossfade length and the planned transition start.
C9_SegmentsMeetWithinOverlap ==
    (mix.previous # NoRender /\ mix.next # NoRender) =>
        /\ mix.next.start - mix.previous.handoff_start <= song_to_song_overlap
        /\ mix.previous.handoff_start - mix.next.start <= song_to_song_overlap

\* ------------------------------------------------------------------------
\* Properties of what is persisted for the segments
\* ------------------------------------------------------------------------
\* No task is inside a graph invocation or between the put of the intro
\* and the insert of its 'initial' row.
Quiescent ==
    \A t \in Tasks : pc[t] \notin GraphNodes \cup {"insert_play_history"}

\* C11: whenever no invocation is under way, the play-history rows inserted
\* for the session are as many as the segments enqueued.
C11_HistoryRowPerSegment ==
    Quiescent => Len(play_history) = Len(segments_rendered)

\* The rows of table segments whose file was put on the queue.
EnqueuedRows ==
    {i \in 1 .. Len(segments_tbl) :
        \E k \in 1 .. Len(segments_rendered) :
            segments_rendered[k] = segments_tbl[i].file_path}

\* C12: the segment_index recorded for an enqueued segment is greater than
\* that of every segment enqueued before it.
C12_SegmentIndexIncreases ==
    \A i, j \in EnqueuedRows :
        i < j => segments_tbl[i].segment_index < segments_tbl[j].segment_index

\* The persistence stage of task t's invocation has raised on the segment
\* row or on the play-history row.
PersistFailed(t) ==
    st[t].persist \in {"insert_segment_raises", "insert_play_history_raises"}

\* C13: an invocation whose persistence stage failed on the segment row or
\* on the play-history row has no segment_ready broadcast for it and no
\* handle put on the queue.
C13_PersistFailureIsFatal ==
    [][\A t \in Tasks :
          PersistFailed(t) =>
              /\ EmitEventsNode(t) => events' = events
              /\ (InitResult(t) \/ PlanResult(t)) =>
                     segment_queue' = segment_queue]_vars

\* C16: when segment_ready is broadcast for a segment, its handle has
\* already been put on the segment queue.
C16_EnqueueBeforeSegmentReady ==
    [][\A t \in Tasks :
          (EmitEventsNode(t) /\ events' # events) =>
              \E k \in 1 .. Len(segments_rendered) :
                  segments_rendered[k].id = st[t].id]_vars

\* A stage of task t's invocation has failed: the selection is over without
\* a track, or the fetch is over without a file.
StageFailed(t) ==
    /\ st[t].graph # "none"
    /\ pc[t] \in {"persistence", "emit_events", "result"}
    /\ st[t].selected_song_uuid = None \/ ~st[t].song_b_path

\* C14: in an invocation of which a stage has failed, no later stage has
\* done its work: the script LLM was not asked, no voice was synthesized,
\* nothing was rendered or persisted, and no client was notified.
C14_FailureShortCircuits ==
    \A t \in Tasks :
        StageFailed(t) =>
            /\ ~st[t].speech_llm
            /\ ~st[t].tts
            /\ st[t].mix = "not_run"
            /\ st[t].persist \in {"not_run", "skipped"}
            /\ ~st[t].now_playing
            /\ st[t].id \notin events

\* The ids of the handles put on the queue so far, in enqueue order.
EnqueuedIds == [k \in 1 .. Len(segments_rendered) |-> segments_rendered[k].id]

\* C15: the handles that have left the queue are exactly the handles the
\* audio track has loaded, in enqueue order: none is removed without being
\* loaded, whatever the order of recv() calls and 'segment_consumed'
\* messages.
C15_EveryRemovedHandleIsLoaded ==
    audio_track.loaded =
        SubSeq(EnqueuedIds, 1, Len(segments_rendered) - Len(segment_queue))

\* Task t begins a pass of one of run()'s loops that plans, or a graph
\* invocation.
BeginsWork(t) ==
    /\ pc'[t] # pc[t]
    /\ pc'[t] \in {"initial_song_selector", "read_history", "planning_agent"}

\* C17: once shutdown() has set running to false (and no 'play' has come
\* since), no task begins a new loop pass or a new graph invocation; what is
\* in flight may complete.
C17_NothingBeginsAfterShutdown ==
    [][stopped => \A t \in Tasks : ~BeginsWork(t)]_vars

\* Task t's steady invocation found no candidate: the cache had no song to
\* offer and the provider's search returned nothing.
NoCandidate(t) ==
    /\ st[t].graph = "plan"
    /\ st[t].hits = None
    /\ st[t].selected_song_uuid = None

\* C18: a steady attempt that finds no candidate multiplies the cooldown by
\* 1.5, never takes it above 120, and leaves the segment queue as it was.
C18_StarvationWidensCooldown ==
    [][\A t \in Tasks :
          (PlanResult(t) /\ NoCandidate(t)) =>
              /\ planning_cooldown'[t] * 2 =
                     IF planning_cooldown[t] * 3 > 120 * Scale * 2
                     THEN 120 * Scale * 2
                     ELSE planning_cooldown[t] * 3
              /\ planning_cooldown'[t] <= 120 * Scale
              /\ segment_queue' = segment_queue]_vars

\* With the provider suppressed the cooldown has climbed from 5 through
\* 7.5 and 11.25 to the cap, with the intro still the only handle queued.
C18_Witness ==
    /\ env.starved
    /\ Len(segment_queue) = 1
    /\ \E t \in Tasks :
           /\ pc[t] = "sleep2"
           /\ planning_cooldown[t] = 120 * Scale

\* ------------------------------------------------------------------------
\* The media cache: DownloadSongTool, CacheManager and the eviction of
\* db.py.  Every action is the code of one call between two awaits; the
\* calls of different scheduler tasks interleave at the awaits.
\* ------------------------------------------------------------------------
\* dict.get(k, default)
Get(d, k, default) == IF k \in DOMAIN d THEN d[k] ELSE default

\* The dict display {**d, **e}: a key of e replaces the same key of d.
Override(d, e) ==
    [k \in DOMAIN d \cup DOMAIN e |-> IF k \in DOMAIN e THEN e[k] ELSE d[k]]

\* Database.get_song: the row as a dict, every column a key.
get_song(songs, uuid) == Override([uuid |-> uuid], songs[uuid])

\* Database.insert_song: INSERT OR REPLACE of the whole row, with the
\* column defaults of the statement for the keys song_data lacks.
insert_song(songs, song_data) ==
    [songs EXCEPT ![song_data.uuid] =
        [local_path |-> Get(song_data, "local_path", None),
         filesize_bytes |-> Get(song_data, "filesize_bytes", Null),
         play_count |-> Get(song_data, "play_count", 0),
         last_played_at |-> Get(song_data, "last_played_at", Null)]]

\* The rows with local_path IS NOT NULL.
Cached(songs) == {u \in Songs : songs[u].local_path # None}

\* row['filesize_bytes'] or 0
SizeOf(row) == IF row.filesize_bytes = Null THEN 0 ELSE row.filesize_bytes

RECURSIVE SumSizes(_, _)
SumSizes(songs, S) ==
    IF S = {} THEN 0
    ELSE LET u == CHOOSE x \in S : TRUE
         IN  SizeOf(songs[u]) + SumSizes(songs, S \ {u})

\* Database.get_cache_size
get_cache_size(songs) == SumSizes(songs, Cached(songs))

\* ORDER BY play_count ASC, last_played_at ASC places a before b, or leaves
\* their order open (NULL sorts before every value).
SortsBefore(a, b) ==
    \/ a.play_count < b.play_count
    \/ a.play_count = b.play_count /\ a.last_played_at <= b.last_played_at

\* The results the SELECT of evict_least_played_songs can deliver: the
\* cached rows in every order the ORDER BY allows.
EvictionOrders(songs) ==
    LET S == Cached(songs)
        n == Cardinality(S)
        orders == {f \in [1 .. n -> S] :
                      /\ \A i, j \in 1 .. n : i # j => f[i] # f[j]
                      /\ \A i, j \in 1 .. n :
                             i < j => SortsBefore(songs[f[i]], songs[f[j]])}
    IN  {[i \in 1 .. n |->
             [uuid |-> f[i], local_path |-> songs[f[i]].local_path,
              filesize_bytes |-> songs[f[i]].filesize_bytes]] : f \in orders}

\* The frame of the cache actions: the scheduler stands still.
SchedulerUnchanged ==
    UNCHANGED << sockets, mix, events, audio_track, stopped, env, running,
                 initial_song_loaded, urgent, queue_created,
                 segment_queue, segments_rendered, sessions, play_history,
                 segments_tbl, invocations, pc, planning_cooldown, since,
                 st >>

\* get_song_path found a file (the row's, or the one AdoptFile took over)
\* and DownloadSongTool returns its path with download_status 'cached'.
ReturnCached(call, song_path) ==
    [call EXCEPT !.pc = "persist", !.download_status = "cached",
                 !.song_b_path = song_path]

\* DownloadSongTool up to the row read of CacheManager.get_song_path.
GetSongPath(t, u) ==
    /\ t <= env.tasks
    /\ cache.call[t].pc = "idle"
    /\ cache.calls < MaxCalls
    /\ LET song == get_song(cache.songs, u)
           started == [NoCall EXCEPT
                          !.uuid = u, !.song = song,
                          !.prev = [uuid |-> cache.call[t].uuid,
                                    song_b_path |->
                                        cache.call[t].song_b_path]]
       IN  cache' =
               [cache EXCEPT
                   !.calls = @ + 1,
                   !.call[t] =
                       IF song.local_path # None /\ u \in cache.files
                       THEN ReturnCached(started, song.local_path)
                       ELSE IF u \in cache.demo
                       THEN [started EXCEPT !.pc = "adopt"]
                       ELSE [started EXCEPT !.pc = "download"]]
    /\ SchedulerUnchanged
    /\ UNCHANGED render

\* get_song_path, a file of the song lies in backend/song-cache: the row is
\* written again, built as {uuid, local_path, filesize_bytes, **song}.
AdoptFile(t) ==
    /\ cache.call[t].pc = "adopt"
    /\ \E filesize \in FileSizes :
           cache' =
               [cache EXCEPT
                   !.songs = insert_song(@,
                       Override([uuid |-> cache.call[t].uuid,
                                 local_path |-> "song-cache",
                                 filesize_bytes |-> filesize],
                                cache.call[t].song)),
                   !.call[t].pc = "enforce"]
    /\ SchedulerUnchanged
    /\ UNCHANGED render

\* CacheManager.enforce_cache_limit
EnforceCacheLimit(t) ==
    /\ cache.call[t].pc = "enforce"
    /\ LET current_size == get_cache_size(cache.songs)
       IN  cache' =
               [cache EXCEPT
                   !.call[t] =
                       IF current_size > CACHE_MAX_BYTES
                       THEN [@ EXCEPT !.pc = "evict",
                                      !.target_bytes = CACHE_MAX_BYTES]
                       ELSE ReturnCached(@, "song-cache")]
    /\ SchedulerUnchanged
    /\ UNCHANGED render

\* evict_least_played_songs: the size read and the early return.
EvictBegin(t) ==
    /\ cache.call[t].pc = "evict"
    /\ LET current_size == get_cache_size(cache.songs)
       IN  cache' =
               [cache EXCEPT
                   !.call[t] =
                       IF current_size <= @.target_bytes
                       THEN ReturnCached([@ EXCEPT !.evicted = << >>],
                                         "song-cache")
                       ELSE [@ EXCEPT !.pc = "select",
                                      !.current_size = current_size]]
    /\ SchedulerUnchanged
    /\ UNCHANGED render

\* evict_least_played_songs: the SELECT of the cached rows.
EvictSelect(t) ==
    /\ cache.call[t].pc = "select"
    /\ \E rows \in EvictionOrders(cache.songs) :
           cache' = [cache EXCEPT !.call[t].pc = "loop",
                                  !.call[t].rows = rows]
    /\ SchedulerUnchanged
    /\ UNCHANGED render

\* evict_least_played_songs: one turn of the loop, for one row.
EvictRow(t) ==
    /\ cache.call[t].pc = "loop"
    /\ cache.call[t].rows # << >>
    /\ cache.call[t].current_size > cache.call[t].target_bytes
    /\ LET row == Head(cache.call[t].rows)
       IN  cache' =
               [cache EXCEPT
                   !.files = @ \ {row.uuid},
                   !.songs[row.uuid].local_path = None,
                   !.songs[row.uuid].filesize_bytes = Null,
                   !.call[t].current_size = @ - SizeOf(row),
                   !.call[t].evicted = Append(@, row.uuid),
                   !.call[t].rows = Tail(@)]
    /\ SchedulerUnchanged
    /\ UNCHANGED render

\* evict_least_played_songs: the loop ends, commit, return evicted.
EvictReturn(t) ==
    /\ cache.call[t].pc = "loop"
    /\ \/ cache.call[t].rows = << >>
       \/ cache.call[t].current_size <= cache.call[t].target_bytes
    /\ cache' = [cache EXCEPT !.call[t] = ReturnCached(@, "song-cache")]
    /\ SchedulerUnchanged
    /\ UNCHANGED render

\* A call that is over: the track and the path it returned stay, its
\* locals are gone.
Finished(call) ==
    [NoCall EXCEPT !.uuid = call.uuid, !.song_b_path = call.song_b_path]

\* What download_song can deliver: a result whose file_path is the file it
\* wrote; where the deployment has faults also a result whose file_path
\* names no file (yt-dlp wrote under another name than _get_output_path
\* builds), or no result.
DownloadResults ==
    {"file"} \cup (IF env.faults THEN {"no_file", "none"} ELSE {})

\* DownloadSongTool: SongDownloader.download_song and the size of its file,
\* 0 when file_path names no file.
DownloadSong(t) ==
    /\ cache.call[t].pc = "download"
    /\ \E download_result \in DownloadResults, filesize \in FileSizes :
           cache' =
               CASE download_result = "file" ->
                        [cache EXCEPT
                            !.files = @ \cup {cache.call[t].uuid},
                            !.call[t].filesize = filesize,
                            !.call[t].downloaded = TRUE,
                            !.call[t].pc = "insert"]
                 [] download_result = "no_file" ->
                        [cache EXCEPT
                            !.call[t].filesize = 0,
                            !.call[t].downloaded = TRUE,
                            !.call[t].pc = "insert"]
                 [] OTHER ->
                        [cache EXCEPT
                            !.call[t] = Finished(
                                [@ EXCEPT !.download_status =
                                              "download_failed"])]
    /\ SchedulerUnchanged
    /\ UNCHANGED render

\* DownloadSongTool: the row of the downloaded song, and the return with
\* download_status 'downloaded'.
InsertDownloaded(t) ==
    /\ cache.call[t].pc = "insert"
    /\ cache' =
           [cache EXCEPT
               !.songs = insert_song(@,
                   [uuid |-> cache.call[t].uuid, local_path |-> "cache",
                    filesize_bytes |-> cache.call[t].filesize]),
               !.call[t].pc = "persist",
               !.call[t].song_b_path = "cache",
               !.call[t].download_status = "downloaded"]
    /\ SchedulerUnchanged
    /\ UNCHANGED render

\* The path DownloadSongTool returned named a file when it returned (the
\* size it read of a missing file is 0).
FetchedFile(call) ==
    /\ call.song_b_path # None
    /\ call.downloaded => call.filesize > 0

\* The rest of the invocation: PersistenceNode counts the play when the
\* segment was rendered (Database.update_play_count); the planner and the
\* renderer skip a song B that has no file.
UpdatePlayCount(t) ==
    /\ cache.call[t].pc = "persist"
    /\ \E rendered \in IF FetchedFile(cache.call[t])
                        THEN Outcomes ELSE {FALSE} :
           cache' =
               IF rendered
               THEN [cache EXCEPT
                        !.songs[cache.call[t].uuid].play_count = @ + 1,
                        !.songs[cache.call[t].uuid].last_played_at =
                            cache.now,
                        !.now = @ + 1,
                        !.call[t] = Finished(@)]
               ELSE [cache EXCEPT !.call[t] = Finished(@)]
    /\ SchedulerUnchanged
    /\ UNCHANGED render

\* One scheduler task whose downloads and renders may fail.
SoloEnv == [GeneralEnv("AcceptsHistory") EXCEPT !.tasks = 1]

\* One listener or two scheduler tasks, no song downloaded yet, and no
\* song or one song lying in backend/song-cache.
InitCache ==
    /\ env \in {QuietEnv, SoloEnv, GeneralEnv("AcceptsHistory")}
    /\ Base
    /\ mix = NoMix
    /\ cache \in {[NoCache EXCEPT !.demo = d] : d \in {{}, {"s1"}}}
    /\ render = NoRequest

NextCache ==
    \/ \E t \in Tasks, u \in Songs : GetSongPath(t, u)
    \/ \E t \in Tasks : AdoptFile(t)
    \/ \E t \in Tasks : EnforceCacheLimit(t)
    \/ \E t \in Tasks : EvictBegin(t)
    \/ \E t \in Tasks : EvictSelect(t)
    \/ \E t \in Tasks : EvictRow(t)
    \/ \E t \in Tasks : EvictReturn(t)
    \/ \E t \in Tasks : DownloadSong(t)
    \/ \E t \in Tasks : InsertDownloaded(t)
    \/ \E t \in Tasks : UpdatePlayCount(t)

SpecCache == InitCache /\ [][NextCache]_vars

\* C19: whenever a call of DownloadSongTool returns with download_status
\* 'downloaded', the cached songs add up to at most CACHE_MAX_BYTES.
C19_DownloadKeepsCacheWithinLimit ==
    [][\A t \in Tasks :
          InsertDownloaded(t) =>
              get_cache_size(cache'.songs) <= CACHE_MAX_BYTES]_vars

\* The call of evict_least_played_songs made by task t returns in this step.
EvictionReturns(t) ==
    /\ cache.call[t].pc \in {"evict", "loop"}
    /\ cache'.call[t].pc = "persist"

\* C20: when evict_least_played_songs(target) returns, the sizes of the
\* rows with a local_path add up to at most target; and a call that finds
\* the cache within target evicts nothing and returns the empty list.
C20_EvictionReachesTarget ==
    [][\A t \in Tasks :
          /\ EvictionReturns(t) =>
                 get_cache_size(cache'.songs) <= cache.call[t].target_bytes
          /\ (EvictBegin(t) /\ get_cache_size(cache.songs)
                                   <= cache.call[t].target_bytes) =>
                 /\ cache'.songs = cache.songs
                 /\ cache'.call[t].evicted = << >>]_vars

\* Row a comes before row b in every order the ORDER BY allows.
StrictlyBefore(a, b) == SortsBefore(a, b) /\ ~SortsBefore(b, a)

\* C21: an eviction pass takes a row away only while the cached rows add up
\* to more than the target, and when it returns every song it evicted has
\* its row with local_path and filesize_bytes NULL and no song that is
\* still cached sorts before an evicted one by (play_count, last_played_at).
C21_EvictionInPlayOrder ==
    [][\A t \in Tasks :
          /\ EvictRow(t) =>
                 get_cache_size(cache.songs) > cache.call[t].target_bytes
          /\ EvictionReturns(t) =>
                 \A i \in 1 .. Len(cache'.call[t].evicted) :
                     LET e == cache'.call[t].evicted[i]
                     IN  /\ cache'.songs[e].local_path = None
                         /\ cache'.songs[e].filesize_bytes = Null
                         /\ \A u \in Cached(cache'.songs) :
                                ~StrictlyBefore(cache'.songs[u],
                                                cache'.songs[e])]_vars

\* The call of DownloadSongTool made by task t returns a path in this step.
ReturnsPath(t) ==
    /\ cache.call[t].pc # "persist"
    /\ cache'.call[t].pc = "persist"

\* C27: when a task's call of DownloadSongTool returns a path for the track
\* its call before returned a path for, the path is the same and the call
\* made no download.
C27_SecondRunSamePathNoDownload ==
    [][\A t \in Tasks :
          (/\ ReturnsPath(t)
           /\ cache'.call[t].prev.uuid = cache'.call[t].uuid
           /\ cache'.call[t].prev.song_b_path # None) =>
              /\ cache'.call[t].song_b_path = cache'.call[t].prev.song_b_path
              /\ ~cache'.call[t].downloaded]_vars

\* ------------------------------------------------------------------------
\* One transition render: the plan of analyze_tracks, the timings and the
\* transition create_dj_mix builds from it, and the filter-graph check of
\* ffmpeg_runner.py.  Times are in milliseconds.
\* ------------------------------------------------------------------------
TrackDurations == {10000, 45000, 92000, 200000, 210000}

\* Length of the synthesized voice file; 0 when the render has no tts_path.
VoiceDurations == {0, 4000, 60000}

KnownTransitions ==
    {"blend", "bass_swap", "filter_sweep", "echo_out", "vinyl_stop"}

\* ai_analyzer._get_default_plan
DefaultPlan ==
    [transition_type |-> "blend", transition_start |-> 190000,
     crossfade_duration |-> 10000, tts_start_offset |-> 5000]

\* The JSON object {} .
EmptyPlan == [k \in {} |-> 0]

\* The JSON objects the planner LLM may answer with: any kind, known or
\* not, any numbers, and objects that lack keys.
PlanObjects ==
    [transition_type : {"blend", "bass_swap", "vinyl_stop", "scratch"},
     transition_start : {10000, 190000},
     crossfade_duration : {0, 10000, 400000},
     tts_start_offset : {0, 5000}]
    \cup {[transition_type |-> "echo_out"], EmptyPlan}

\* What the completion of analyze_tracks comes to: no API key, an
\* exception of the request or of json.loads, a JSON value that is no
\* object (result.get raises), or a JSON object.
PlanResponses ==
    {[kind |-> k] : k \in {"no_key", "exception", "not_object"}}
    \cup {[kind |-> "object", result |-> o] : o \in PlanObjects}

\* ai_analyzer.analyze_tracks
analyze_tracks(response) ==
    IF response.kind = "object" THEN response.result ELSE DefaultPlan

\* transitions.TRANSITION_FUNCTIONS
TRANSITION_FUNCTIONS ==
    [blend |-> "apply_crossfade", crossfade |-> "apply_crossfade",
     bass_swap |-> "apply_bass_swap", filter_sweep |-> "apply_filter_sweep",
     echo_out |-> "apply_echo_out", vinyl_stop |-> "apply_vinyl_stop"]

\* transitions.get_transition_function
get_transition_function(transition_type) ==
    Get(TRANSITION_FUNCTIONS, transition_type, "apply_crossfade")

\* The transition create_dj_mix builds when every kind it does not know
\* is given the vinyl stop.
mixed_music_stop(transition_type, crossfade_duration, segment_transition_pos) ==
    CASE transition_type \in {"blend", "crossfade"} ->
             [fn |-> "apply_crossfade", duration |-> crossfade_duration,
              swap_time |-> 0]
      [] transition_type = "bass_swap" ->
             [fn |-> "apply_bass_swap", duration |-> crossfade_duration,
              swap_time |-> segment_transition_pos
                                + (crossfade_duration \div 2)]
      [] transition_type = "filter_sweep" ->
             [fn |-> "apply_filter_sweep", duration |-> crossfade_duration,
              swap_time |-> 0]
      [] transition_type = "echo_out" ->
             [fn |-> "apply_echo_out", duration |-> crossfade_duration,
              swap_time |-> 0]
      [] OTHER ->
             [fn |-> "apply_vinyl_stop", duration |-> 2000, swap_time |-> 0]

\* create_dj_mix: the transition applied to song 1 and the delayed song 2.
mixed_music(transition_type, crossfade_duration, segment_transition_pos) ==
    CASE transition_type \in {"blend", "crossfade"} ->
             [fn |-> "apply_crossfade", duration |-> crossfade_duration,
              swap_time |-> 0]
      [] transition_type = "bass_swap" ->
             [fn |-> "apply_bass_swap", duration |-> crossfade_duration,
              swap_time |-> segment_transition_pos
                                + (crossfade_duration \div 2)]
      [] transition_type = "filter_sweep" ->
             [fn |-> "apply_filter_sweep", duration |-> crossfade_duration,
              swap_time |-> 0]
      [] transition_type = "echo_out" ->
             [fn |-> "apply_echo_out", duration |-> crossfade_duration,
              swap_time |-> 0]
      [] transition_type = "vinyl_stop" ->
             [fn |-> "apply_vinyl_stop", duration |-> 2000, swap_time |-> 0]
      [] OTHER ->
             [fn |-> "apply_crossfade", duration |-> crossfade_duration,
              swap_time |-> 0]

\* No voice in the segment: segment_metadata has no "tts" key.
NoTts == [start |-> 0 - 1, end |-> 0 - 1]

\* create_dj_mix as AudioRendererTool calls it: the values it computes and
\* writes to segment_metadata, from the two track lengths, the length of
\* the voice file (0: no tts_path) and the transition plan.
create_dj_mix_metadata(song1_duration, song2_duration, tts_duration, transition_plan) ==
    LET transition_type == Get(transition_plan, "transition_type", "blend")
        t_start == Get(transition_plan, "transition_start", NoStart)
        xfade_dur == Get(transition_plan, "crossfade_duration", 10000)
        tts_offset == Get(transition_plan, "tts_start_offset", 5000)
        start == transition_start(song1_duration, t_start, xfade_dur)
        from == song1_start(song1_duration, t_start, xfade_dur)
        song1_segment_duration == song1_duration - from
        segment_transition_pos == start - from
        handoff == song2_handoff_start(song2_duration)
        trim == song2_trim(song2_duration)
        delay_seconds ==
            Max(segment_transition_pos - (song_to_song_overlap \div 2), 0)
        handoff_gap == handoff - trim
        actual_tts_start == Max(segment_transition_pos - tts_offset, 0)
    IN  [song1 |-> [start |-> from,
                    end |-> from + song1_segment_duration,
                    transition_start |-> start,
                    segment_transition_pos |-> segment_transition_pos],
         song2 |-> [end |-> trim, handoff_start |-> handoff],
         transition |-> [type |-> transition_type,
                         crossfade_duration |-> xfade_dur,
                         start_in_segment |-> delay_seconds,
                         mixed_music |->
                             mixed_music(transition_type, xfade_dur,
                                         segment_transition_pos)],
         tts |-> IF tts_duration > 0
                 THEN [start |-> actual_tts_start,
                       end |-> actual_tts_start + tts_duration]
                 ELSE NoTts,
         render |-> [expected_duration |->
                         Max(song1_segment_duration, delay_seconds + trim),
                     gap_warning |-> handoff_gap > 0,
                     handoff_gap |-> Max(handoff_gap, 0)]]

\* Filter names, letter by letter.
f_volume == << "v", "o", "l", "u", "m", "e" >>
f_volumedetect ==
    << "v", "o", "l", "u", "m", "e", "d", "e", "t", "e", "c", "t" >>
f_rubberband == << "r", "u", "b", "b", "e", "r", "b", "a", "n", "d" >>

ALLOWED_FILTERS ==
    {
     << "a", "f", "a", "d", "e" >>,
     << "a", "c", "r", "o", "s", "s", "f", "a", "d", "e" >>,
     << "v", "o", "l", "u", "m", "e" >>,
     << "a", "t", "r", "i", "m" >>,
     << "a", "d", "e", "l", "a", "y" >>,
     << "a", "f", "o", "r", "m", "a", "t" >>,
     << "a", "e", "c", "h", "o" >>,
     << "a", "r", "e", "v", "e", "r", "b" >>,
     << "a", "c", "o", "m", "p", "r", "e", "s", "s", "o", "r" >>,
     << "s", "i", "d", "e", "c", "h", "a", "i", "n", "c", "o", "m", "p", "r", "e", "s", "s" >>,
     << "a", "n", "u", "l", "l" >>,
     << "a", "m", "i", "x" >>,
     << "a", "m", "e", "r", "g", "e" >>,
     << "a", "s", "e", "t", "r", "a", "t", "e" >>,
     << "a", "t", "e", "m", "p", "o" >>,
     << "a", "s", "e", "t", "p", "t", "s" >>,
     << "b", "a", "n", "d", "p", "a", "s", "s" >>,
     << "h", "i", "g", "h", "p", "a", "s", "s" >>,
     << "l", "o", "w", "p", "a", "s", "s" >>,
     << "e", "q", "u", "a", "l", "i", "z", "e", "r" >>,
     << "a", "l", "i", "m", "i", "t", "e", "r" >>,
     << "a", "r", "e", "s", "a", "m", "p", "l", "e" >>,
     << "a", "l", "o", "o", "p" >>,
     << "c", "o", "n", "c", "a", "t" >>,
     << "a", "s", "p", "l", "i", "t" >>
    }

MAX_FILTER_COMPLEX_LENGTH == 2000

\* The filter graphs handed to run_ffmpeg_render: the filters the text
\* uses and the length of the text.
Filtergraphs ==
    [filters : SUBSET {f_volume, f_volumedetect, f_rubberband},
     length : {100, MAX_FILTER_COMPLEX_LENGTH, MAX_FILTER_COMPLEX_LENGTH + 1}]

\* Python's `name in text` for a filter name and the name of a filter of
\* the text.
Occurs(name, filter) ==
    \E i \in 1 .. Len(filter) :
        /\ i + Len(name) - 1 <= Len(filter)
        /\ SubSeq(filter, i, i + Len(name) - 1) = name

\* ffmpeg_runner.validate_filtergraph
validate_filtergraph(filtergraph) ==
    IF filtergraph.length > MAX_FILTER_COMPLEX_LENGTH
    THEN FALSE
    ELSE \E filter_name \in ALLOWED_FILTERS :
             \E filter \in filtergraph.filters : Occurs(filter_name, filter)

\* The frame of the render actions.
RenderFrame ==
    /\ SchedulerUnchanged
    /\ UNCHANGED cache

\* TransitionPlannerAgent with both songs on disk: the plan of
\* analyze_tracks is put into the state as it comes.
PlanTransition ==
    /\ render.pc = "plan"
    /\ \E response \in PlanResponses :
           render' = [pc |-> "render",
                      song1_duration |-> render.song1_duration,
                      song2_duration |-> render.song2_duration,
                      tts_duration |-> render.tts_duration,
                      transition_plan |-> analyze_tracks(response)]
    /\ RenderFrame

\* AudioRendererTool: an empty plan is no plan, nothing is rendered.
SkipRender ==
    /\ render.pc = "render"
    /\ render.transition_plan = EmptyPlan
    /\ render' = [pc |-> "skipped"]
    /\ RenderFrame

\* AudioRendererTool calls create_dj_mix, which returns its dict when
\* ffmpeg succeeds and None when it fails.
CreateDjMix ==
    /\ render.pc = "render"
    /\ render.transition_plan # EmptyPlan
    /\ \E ffmpeg_ok \in BOOLEAN :
           render' =
               [pc |-> IF ffmpeg_ok THEN "rendered" ELSE "failed",
                song1_duration |-> render.song1_duration,
                song2_duration |-> render.song2_duration,
                tts_duration |-> render.tts_duration,
                transition_plan |-> render.transition_plan,
                metadata |->
                    create_dj_mix_metadata(
                        render.song1_duration, render.song2_duration,
                        render.tts_duration, render.transition_plan)]
    /\ RenderFrame

\* get_transition_function asked for the builder of a transition kind.
GetTransitionFunction ==
    /\ render.pc = "lookup"
    /\ render' = [pc |-> "looked_up",
                  transition_type |-> render.transition_type,
                  function |->
                      get_transition_function(render.transition_type)]
    /\ RenderFrame

\* run_ffmpeg_render up to the start of ffmpeg.
RunFfmpegRender ==
    /\ render.pc = "ffmpeg"
    /\ render' = [pc |-> "ffmpeg_called",
                  filter_complex |-> render.filter_complex,
                  outcome |-> IF validate_filtergraph(render.filter_complex)
                              THEN "started" ELSE "ValueError"]
    /\ RenderFrame

\* A transition render of two tracks with or without a voice file, a
\* lookup of a transition kind, or a call of run_ffmpeg_render.
\* The states parallel_planning is entered with: a track selected or not,
\* song A and song B on disk or not (no song B without a selected track).
PlanningInputs ==
    {[EmptyState EXCEPT !.graph = "plan", !.id = 1,
                        !.selected_song_uuid = i[1],
                        !.song_a_uuid = IF i[2] THEN "s2" ELSE None,
                        !.song_a_path = i[2], !.song_b_path = i[3]] :
         i \in {j \in {None, "s1"} \X BOOLEAN \X BOOLEAN :
                    j[1] = None => ~j[3]}}

\* How each of the two agents of parallel_planning may end.
PlannerEndings == {"plan", "get_db_raises", "analysis_raises"}
SpeechEndings == {"text", "none", "raises"}

\* parallel_planning: asyncio.gather waits for both agents, then the node
\* merges what the two returned.
ParallelPlanning ==
    /\ render.pc = "planning"
    /\ \E planner \in PlannerEndings, answer \in SpeechEndings :
           render' = [pc |-> "planned", state |-> render.state,
                      planner |-> planner, speech |-> answer,
                      merged |-> ParallelPlanningNode(render.state, planner,
                                                      answer)]
    /\ RenderFrame

\* The tts and audio_renderer nodes that follow parallel_planning.
TtsAndRender ==
    /\ render.pc = "planned"
    /\ \E ffmpeg_ok \in BOOLEAN :
           render' = [render EXCEPT
                         !.pc = "done",
                         !.merged = AudioRendererTool(TTSAgent(render.merged),
                                                      ffmpeg_ok)]
    /\ RenderFrame

\* Database.get_cached_songs: the rows that have a local_path and are not
\* in exclude_uuids.
get_cached_songs(cached, exclude_uuids) == cached \ exclude_uuids

\* What the planner LLM can answer to the steady selection: nothing usable,
\* a parsed object without selected_uuid, or a parsed choice of any uuid.
SelectionAnswers ==
    {[kind |-> "unavailable", uuid |-> None],
     [kind |-> "no_uuid", uuid |-> None]}
        \cup {[kind |-> "choice", uuid |-> u] : u \in Songs}

\* PlanningAgent with cached songs to offer: search_results are the cached
\* rows outside the global history (first is search_results[0]), and the
\* selection is made from the LLM's response.
SelectFromCache ==
    /\ render.pc = "select"
    /\ LET search_results ==
               get_cached_songs(render.cached, render.recently_played_uuids)
       IN  /\ search_results # {}
           /\ \E first \in search_results :
                  render' =
                      [pc |-> "selected",
                       search_results |-> search_results,
                       recently_played_uuids |->
                           render.recently_played_uuids,
                       state |-> PlanningAgent(
                           [EmptyState EXCEPT !.graph = "plan", !.id = 1],
                           None, first,
                           generate_track_selection(render.client,
                                                    render.answer))]
    /\ RenderFrame

InitRender ==
    /\ env = QuietEnv
    /\ Base
    /\ mix = NoMix
    /\ cache = NoCache
    /\ render \in
           {[pc |-> "plan", song1_duration |-> a, song2_duration |-> b,
             tts_duration |-> v] :
                a \in TrackDurations, b \in TrackDurations,
                v \in VoiceDurations}
           \cup {[pc |-> "lookup", transition_type |-> k] :
                    k \in KnownTransitions \cup {"crossfade", "scratch"}}
           \cup {[pc |-> "ffmpeg", filter_complex |-> g] :
                    g \in Filtergraphs}
           \cup {[pc |-> "planning", state |-> s] : s \in PlanningInputs}
           \cup {[pc |-> "select", cached |-> c,
                  recently_played_uuids |-> r, answer |-> a, client |-> k] :
                    c \in SUBSET Songs, r \in SUBSET Songs,
                    a \in SelectionAnswers, k \in Clients}

NextRender ==
    \/ PlanTransition
    \/ SkipRender
    \/ CreateDjMix
    \/ GetTransitionFunction
    \/ RunFfmpegRender
    \/ ParallelPlanning
    \/ TtsAndRender
    \/ SelectFromCache

SpecRender == InitRender /\ [][NextRender]_vars

\* The render has computed its timings (ffmpeg has run, well or not).
Computed == render.pc \in {"rendered", "failed"}

\* C22: the crossfade length a transition render uses is at least 0.05 s
\* and at most the shorter track's length less 0.05 s.
C22_CrossfadeWithinBounds ==
    Computed =>
        /\ 50 <= render.metadata.transition.crossfade_duration
        /\ render.metadata.transition.crossfade_duration
               <= Min(render.song1_duration, render.song2_duration) - 50

C24_VoiceEndsWithinSegment ==
    (render.pc = "rendered" /\ render.metadata.tts # NoTts) =>
        render.metadata.tts.end <= render.metadata.render.expected_duration

\* C25: every transition plan the renderer is given has one of the five
\* transition kinds, a crossfade of at least 0.05 s, a transition start
\* inside track A and a voice offset that is not negative.
C25_PlanValidated ==
    (render.pc = "render" /\ render.transition_plan # EmptyPlan) =>
        /\ Get(render.transition_plan, "transition_type", "blend")
               \in KnownTransitions
        /\ Get(render.transition_plan, "crossfade_duration", 10000) >= 50
        /\ Get(render.transition_plan, "tts_start_offset", 5000) >= 0
        /\ Get(render.transition_plan, "transition_start", 0)
               \in 0 .. render.song1_duration

\* C26: run_ffmpeg_render raises, and starts no ffmpeg, for every filter
\* graph longer than 2000 characters and for every filter graph that uses
\* a filter outside the allowed list.
C26_FiltergraphRefused ==
    (/\ render.pc = "ffmpeg_called"
     /\ \/ render.filter_complex.length > MAX_FILTER_COMPLEX_LENGTH
        \/ \E filter \in render.filter_complex.filters :
               filter \notin ALLOWED_FILTERS) =>
        render.outcome = "ValueError"

FailedEnd(t) ==
    /\ cache.call[t].pc # "idle"
    /\ cache'.call[t].pc = "idle"
    /\ cache'.now = cache.now

\* C30: with one scheduler task, an invocation whose fetch or render fails
\* leaves the track's play count and last-played time as they were when
\* the invocation read the row, and writes no segment row, no play-history
\* row and no queue entry.
C30_FailedInvocationWritesNothing ==
    [][\A t \in Tasks :
          (env.tasks = 1 /\ FailedEnd(t)) =>
              LET uuid == cache.call[t].uuid
              IN  /\ cache'.songs[uuid].play_count =
                         cache.call[t].song.play_count
                  /\ cache'.songs[uuid].last_played_at =
                         cache.call[t].song.last_played_at
                  /\ UNCHANGED << segments_tbl, play_history,
                                  segment_queue >>]_vars

\* C30, for the scheduler's tables: a step of an invocation that carries
\* no rendered segment writes no segment row and no play-history row and
\* puts nothing on the segment queue.
C30_NoRowsWithoutRender ==
    [][\A t \in Tasks :
          (/\ pc[t] \in {"persistence", "emit_events", "result"}
           /\ pc'[t] # pc[t]
           /\ st[t].rendered_segment_path = NoHandle) =>
              UNCHANGED << segments_tbl, play_history, segment_queue >>]_vars

\* parallel_planning has returned for the request at hand.
Joined == render.pc \in {"planned", "done"}

\* C29: parallel_planning returns with both agents' results; an agent that
\* raises contributes nothing (no plan, no script) while the other's result
\* is kept; without a script the mix is made without voice, and without a
\* plan nothing is rendered.
C29_RaisingAgentContributesNull ==
    Joined =>
        LET state == render.state
            merged == render.merged
            planned == TransitionPlannerAgent(state, "plan")
            written == SpeechWriterAgent(state, render.speech)
        IN  /\ PlannerRaises(state, render.planner) =>
                   /\ ~merged.transition_plan
                   /\ merged.speech_script = written.speech_script
            /\ render.speech = "raises" =>
                   /\ ~merged.speech_script
                   /\ ~PlannerRaises(state, render.planner) =>
                          merged.transition_plan = planned.transition_plan
            /\ render.pc = "done" =>
                   /\ (~merged.speech_script /\ merged.transition_plan
                          /\ state.song_b_path) =>
                             ~merged.tts /\ merged.mix # "not_run"
                   /\ ~merged.transition_plan =>
                          /\ merged.mix = "not_run"
                          /\ merged.rendered_segment_path = NoHandle

\* C31: a steady pass that has taken the urgent flag (is_urgent) and
\* cleared it goes on to invoke the planning graph: the flag is never
\* cleared without a planning invocation being started.
C31_UrgentClearedOnlyByPlanning ==
    [][\A t \in Tasks :
          (/\ pc[t] = "read_history"
           /\ st[t].is_urgent
           /\ pc'[t] # pc[t]) => pc'[t] = "planning_agent"]_vars

\* ------------------------------------------------------------------------
\* The scheduler under fair scheduling: one run() task with every fault,
\* a front end that asks for segments, and shutdown.
\* ------------------------------------------------------------------------
LivePlans == 3

LiveEnv ==
    [client |-> "AcceptsHistory", faults |-> TRUE, llm |-> FALSE,
     consumption |-> FALSE, webrtc |-> FALSE, starved |-> FALSE,
     shutdown |-> TRUE, tasks |-> 1, plans |-> LivePlans]

InitLive ==
    /\ env = LiveEnv
    /\ Base
    /\ mix = NoMix
    /\ cache = NoCache
    /\ render = NoRequest

\* A step of the run() task t: the event loop resumes a task whose await
\* is over.
RunStep(t) ==
    \/ RunStart(t)
    \/ CreateSession(t)
    \/ InitialSongSelector(t)
    \/ InitialRender(t)
    \/ PersistenceNode(t)
    \/ EmitEventsNode(t)
    \/ InitResult(t)
    \/ InitRecord(t)
    \/ BootstrapRetry(t)
    \/ ReadHistory(t)
    \/ PlanningAgentNode(t)
    \/ Render(t)
    \/ PlanResult(t)
    \/ Wake(t)

\* A task that can run is run, and the clock moves on.
Fairness ==
    /\ WF_vars(Advance)
    /\ \A t \in Tasks : WF_vars(RunStep(t))

NextLive ==
    \/ \E t \in Tasks : Play(t)
    \/ Shutdown
    \/ RequestSegments
    \/ Advance
    \/ \E t \in Tasks : RunStep(t)

SpecLive == InitLive /\ [][NextLive]_vars /\ Fairness

\* A steady invocation has come back without a segment, or the outer
\* except of the steady loop has caught an exception.
FailedSteady(t) ==
    \/ pc[t] = "sleep5"
    \/ /\ pc[t] = "result"
       /\ st[t].graph = "plan"
       /\ st[t].rendered_segment_path = NoHandle

\* planning_graph.ainvoke is called with the state that run() has built.
PlanningStarted(t) == pc[t] = "planning_agent"

UnaskedPlans == 4

UnaskedEnv ==
    [client |-> "AcceptsHistory", faults |-> FALSE, llm |-> FALSE,
     consumption |-> TRUE, webrtc |-> FALSE, starved |-> FALSE,
     shutdown |-> FALSE, tasks |-> MaxTasks, plans |-> UnaskedPlans]

InitUnasked ==
    /\ env = UnaskedEnv
    /\ Base
    /\ mix = NoMix
    /\ cache = NoCache
    /\ render = NoRequest

\* Every step but 'request_segments'.
NextUnasked ==
    \/ \E t \in Tasks : Play(t)
    \/ SegmentConsumed
    \/ Advance
    \/ \E t \in Tasks :
           \/ RunStart(t)
           \/ CreateSession(t)
           \/ InitialSongSelector(t)
           \/ InitialRender(t)
           \/ PersistenceNode(t)
           \/ EmitEventsNode(t)
           \/ InitResult(t)
           \/ InitRecord(t)
           \/ ReadHistory(t)
           \/ PlanningAgentNode(t)
           \/ Render(t)
           \/ PlanResult(t)
           \/ Wake(t)

SpecUnasked == InitUnasked /\ [][NextUnasked]_vars

\* C33: when request_more_segments() is never called, the segment queue
\* never holds more than 3 handles.
C33_QueueAtMostThreeUnasked == Len(segment_queue) <= QueueGate

\* C34: a track the steady selection takes when it offers cached songs is
\* one of the songs offered, and is not in the global play history.
C34_SelectionAmongCandidates ==
    (render.pc = "selected" /\ render.state.selected_song_uuid # None) =>
        /\ render.state.selected_song_uuid \in render.search_results
        /\ render.state.selected_song_uuid \notin
               render.recently_played_uuids

\* C35: for every length T_B of track B a transition render cuts B at
\* min(T_B, handoff_B + 0.75 s), handoff_B = max(0, (T_B - 20 s) - 12 s).
C35_TrackBCutAtHandoffPlusOverlap ==
    Computed =>
        LET T_B == render.song2_duration
            handoff_B == Max(0, (T_B - 20000) - 12000)
        IN  render.metadata.song2.end = Min(T_B, handoff_B + 750)

C37_PlayCountNeverLost ==
    [][env.tasks = 1 =>
          \A u \in Songs :
              LET row == cache.songs[u]
                  after == cache'.songs[u]
              IN  /\ after.play_count >= row.play_count
                  /\ row.last_played_at # Null =>
                         after.last_played_at # Null
                  /\ (\/ after.play_count # row.play_count
                      \/ after.last_played_at # row.last_played_at) =>
                         after.play_count = row.play_count + 1]_vars

\* C38: when get_song_path has returned a path to DownloadSongTool, the
\* song's row names that path and records a size (one scheduler task).
C38_ReturnedPathIsRecorded ==
    \A t \in Tasks :
        (/\ env.tasks = 1
         /\ cache.call[t].pc = "persist"
         /\ cache.call[t].download_status = "cached") =>
            LET row == cache.songs[cache.call[t].uuid]
            IN  /\ row.local_path = cache.call[t].song_b_path
                /\ row.filesize_bytes # Null

\* ------------------------------------------------------------------------
\* The websocket route /ws (main.py) and the event emitter (events.py):
\* sockets.handler is the position of websocket_endpoint for a websocket
\* ("receiving": in its loop; otherwise how it ended), sockets.peer is
\* the client's end
\* ------------------------------------------------------------------------
\* The exceptions of receive_text on which the loop of websocket_endpoint
\* breaks: WebSocketDisconnect, a RuntimeError, any other exception whose
\* text has "disconnect" or "closed".
DisconnectWays == {"WebSocketDisconnect", "RuntimeError", "Exception"}

\* The frame of the websocket actions.
SocketFrame ==
    UNCHANGED << render, cache, mix, events, audio_track, stopped, env,
                 running, initial_song_loaded, urgent, queue_created,
                 segment_queue, segments_rendered, sessions, play_history,
                 segments_tbl, invocations, pc, planning_cooldown, since,
                 st >>

\* ConnectionManager.disconnect, with WebSocketEventEmitter.disconnect
disconnect(s, unregistered) ==
    [s EXCEPT !.active_connections = @ \ unregistered,
              !.connections = @ \ unregistered]

\* websocket_endpoint up to its loop: manager.connect accepts and
\* registers the websocket with both registries; when accept raises,
\* connect raises again and the endpoint calls manager.disconnect.
WsConnect(w) ==
    /\ sockets.handler[w] = "none"
    /\ \E accepted \in BOOLEAN :
           sockets' =
               IF accepted
               THEN [sockets EXCEPT
                        !.handler[w] = "receiving",
                        !.peer[w] = "open",
                        !.active_connections = @ \cup {w},
                        !.connections = @ \cup {w}]
               ELSE [disconnect(sockets, {w}) EXCEPT
                        !.handler[w] = "accept_failed",
                        !.peer[w] = "closed"]
    /\ SocketFrame

\* The client goes away.
ClientCloses(w) ==
    /\ sockets.peer[w] = "open"
    /\ sockets' = [sockets EXCEPT !.peer[w] = "closed"]
    /\ SocketFrame

\* websocket_endpoint receives a text that is no JSON or has a type it
\* does not know: manager.broadcast sends to every active connection and
\* disconnects those whose send_text raised (a send to a client that is
\* gone may raise or not).
WsBroadcast(w) ==
    /\ sockets.handler[w] = "receiving"
    /\ sockets.peer[w] = "open"
    /\ \E disconnected \in
            SUBSET {c \in sockets.active_connections :
                        sockets.peer[c] = "closed"} :
           sockets' = disconnect(sockets, disconnected)
    /\ SocketFrame

\* websocket_endpoint: receive_text raises because the client is gone,
\* and the loop breaks; the endpoint returns.
WsDisconnected(w) ==
    /\ sockets.handler[w] = "receiving"
    /\ sockets.peer[w] = "closed"
    /\ \E way \in DisconnectWays :
           sockets' = [sockets EXCEPT !.handler[w] = way]
    /\ SocketFrame

\* WebSocketEventEmitter.emit: send_text on every registered connection,
\* the exceptions gathered and dropped.
Emit ==
    /\ sockets.connections # {}
    /\ sockets' = [sockets EXCEPT !.emitted_to = sockets.connections]
    /\ SocketFrame

InitSockets ==
    /\ env = QuietEnv
    /\ Base
    /\ mix = NoMix
    /\ cache = NoCache
    /\ render = NoRequest

NextSockets ==
    \/ \E w \in WebSockets : WsConnect(w)
    \/ \E w \in WebSockets : ClientCloses(w)
    \/ \E w \in WebSockets : WsBroadcast(w)
    \/ \E w \in WebSockets : WsDisconnected(w)
    \/ Emit

SpecSockets == InitSockets /\ [][NextSockets]_vars

\* C39: a websocket whose client has disconnected and whose endpoint has
\* seen it, in whichever way, is in neither registry.
C39_DisconnectedIsUnregistered ==
    \A w \in WebSockets :
        (/\ sockets.peer[w] = "closed"
         /\ sockets.handler[w] \in DisconnectWays \cup {"accept_failed"}) =>
            /\ w \notin sockets.active_connections
            /\ w \notin sockets.connections

====
